---------------------------- MODULE Spec2Model ----------------------------
(***************************************************************************)
(* Model of yavdr_pulse_dbusctl/main.py: the D-Bus object PulseDBusControl  *)
(* with its four methods list_output_profiles, set_profile, list_sinks and  *)
(* set_default_sink, running on one asyncio event loop against one          *)
(* pulsectl connection.  The audio server is modelled by its card list,     *)
(* sink list, sink-input list and default-sink name; every pulsectl call    *)
(* is one step, and a call that changes the server may be rejected.         *)
(***************************************************************************)
EXTENDS Integers, Sequences, FiniteSets, TLC

VARIABLES
    cards,              \* server: pulse.card_list()
    sink_list,          \* server: pulse.sink_list()
    sink_inputs,        \* server: pulse.sink_input_list()
    default_sink_name,  \* server: pulse.server_info().default_sink_name
    running,            \* the caller whose handler holds the event loop, 0 if none
    pc,                 \* per caller: position of its method call
    op,                 \* per caller: the method called
    arg,                \* per caller: the arguments of the call
    local,              \* per caller: the handler's local variables
    result,             \* per caller: how the handler ended
    log,                \* per caller: the pulsectl calls the handler made so far
    pre,                \* per caller: the server state when the handler started
    last                \* the set_* call replied to most recently, if it returned True

vars == <<cards, sink_list, sink_inputs, default_sink_name, running,
          pc, op, arg, local, result, log, pre, last>>

server == <<cards, sink_list, sink_inputs, default_sink_name>>

---------------------------------------------------------------------------
(* Bounds *)

NumCallers == 2
MaxStreams == 2

Callers == 1..NumCallers

---------------------------------------------------------------------------
(* Names.  Profile names are sequences of characters, so that             *)
(* str.startswith is computed and not assumed.                             *)

OutputPrefix == <<"o", "u", "t", "p", "u", "t", ":">>

StartsWith(s, prefix) ==
    /\ Len(s) >= Len(prefix)
    /\ SubSeq(s, 1, Len(prefix)) = prefix

N_output_h == OutputPrefix \o <<"h">>
N_output_s == OutputPrefix \o <<"s">>
N_output_z == OutputPrefix \o <<"z">>
N_input_m  == <<"i", "n", "p", "u", "t", ":", "m">>
N_output   == <<"o", "u", "t", "p", "u", "t">>
N_off      == <<"o", "f", "f">>
N_nope     == <<"n", "o", "p", "e">>

Profile(n, d, a, k) ==
    [name |-> n, description |-> d, available |-> a, n_sinks |-> k]

P_off == Profile(N_off, "Off", 1, 0)

Card(n, d, pl, act) ==
    [name |-> n, proplist |-> [device_description |-> d],
     profile_list |-> pl, profile_active |-> act]

\* The card lists the server may hold when the service starts.
CardConfigs ==
    { << Card("card0", "Built-in Audio",
              << Profile(N_output_h, "HDMI", 1, 1),
                 Profile(N_output_s, "SPDIF", 0, 1),
                 Profile(N_output_z, "Virtual", 1, 0),
                 Profile(N_input_m, "Mic", 1, 1),
                 P_off >>, P_off),
         Card("card1", "USB Audio",
              << P_off, Profile(N_output, "Output", 1, 1) >>, P_off) >>,
      << Card("card0", "Built-in Audio",
              << Profile(N_output_h, "HDMI", 0, 1),
                 Profile(N_output_s, "SPDIF", 1, 2),
                 P_off >>, P_off),
         Card("card1", "USB Audio",
              << Profile(N_output_h, "HDMI", 1, 1), P_off >>, P_off) >> }

CardNameArgs == {"card0", "card1", "nocard"}
ProfileNameArgs == {N_output_h, N_off, N_nope}

\* An optional value (Python None or an object) is a sequence of length 0 or 1.
None == <<>>
Some(x) == <<x>>

SinkA == [name |-> "A", description |-> "Analog", index |-> 0, card |-> 0,
          mute |-> 0, channel_count |-> 2, volume |-> [values |-> <<100, 80>>],
          port_active |-> Some([name |-> "analog-output",
                                available_state |-> [_value |-> "yes"]])]

SinkB == [name |-> "B", description |-> "Network", index |-> 1, card |-> 1,
          mute |-> 1, channel_count |-> 1, volume |-> [values |-> <<50>>],
          port_active |-> None]

\* The sink lists the server may hold when the service starts.
SinkConfigs == { <<>>, <<SinkA>>, <<SinkA, SinkB>> }

SinkNameArgs == {"A", "B"}

---------------------------------------------------------------------------
(* The four methods and the values a call may carry *)

Methods == {"list_output_profiles", "set_profile", "list_sinks", "set_default_sink"}

ArgsOf(m) ==
    CASE m = "set_profile"      -> { <<cn, pn>> : cn \in CardNameArgs, pn \in ProfileNameArgs }
      [] m = "set_default_sink" -> { <<sn>> : sn \in SinkNameArgs }
      [] OTHER                  -> { <<>> }

NoLocal == [target_sink |-> None, card |-> None, profile |-> None,
            streams |-> <<>>, i |-> 0, default_sink_name |-> ""]

NoResult == [kind |-> "none"]
Return(v) == [kind |-> "return", value |-> v]
Raise(e)  == [kind |-> "raise", error |-> e]

NoPre == [cards |-> <<>>, sink_inputs |-> <<>>, default_sink_name |-> ""]

NoLast == [op |-> "none", arg |-> <<>>]

Cmd(name, a, ok) == [cmd |-> name, a |-> a, ok |-> ok]

RetOf(m, r) ==
    IF r.kind = "raise" THEN "raise"
    ELSE IF m \in {"set_profile", "set_default_sink"}
         THEN (IF r.value THEN "true" ELSE "false")
    ELSE "value"

Init ==
    /\ cards \in CardConfigs
    /\ sink_list \in SinkConfigs
    /\ sink_inputs = <<>>
    /\ default_sink_name \in SinkNameArgs
    /\ running = 0
    /\ pc = [c \in Callers |-> "idle"]
    /\ op = [c \in Callers |-> "none"]
    /\ arg = [c \in Callers |-> <<>>]
    /\ local = [c \in Callers |-> NoLocal]
    /\ result = [c \in Callers |-> NoResult]
    /\ log = [c \in Callers |-> <<>>]
    /\ pre = [c \in Callers |-> NoPre]
    /\ last = NoLast

---------------------------------------------------------------------------
(* The server's primitives, as pulsectl exposes them *)

\* pulse.get_sink_by_name(name): the sink of that name, None when the lookup
\* raises PulseIndexError.
get_sink_by_name(sinks, name) ==
    LET hits == SelectSeq(sinks, LAMBDA s : s.name = name)
    IN  IF hits = <<>> THEN None ELSE Some(Head(hits))

\* pulse.get_card_by_name(name): the card of that name, None when the lookup
\* raises PulseIndexError.
get_card_by_name(cs, name) ==
    LET hits == SelectSeq(cs, LAMBDA k : k.name = name)
    IN  IF hits = <<>> THEN None ELSE Some(Head(hits))

\* Variant: the profile is looked up among the profiles list_output_profiles shows.
next_profile_filtered(card, profile_name) ==
    LET hits == SelectSeq(card.profile_list,
                          LAMBDA p : /\ p.name = profile_name
                                     /\ p.available # 0
                                     /\ p.n_sinks > 0
                                     /\ StartsWith(p.name, OutputPrefix))
    IN  IF hits = <<>> THEN None ELSE Some(Head(hits))

\* Variant: next(..., card.profile_list[0]), a default instead of StopIteration.
next_profile_default(card, profile_name) ==
    LET hits == SelectSeq(card.profile_list, LAMBDA p : p.name = profile_name)
    IN  IF hits = <<>> THEN Some(Head(card.profile_list)) ELSE Some(Head(hits))

\* next((p for p in card.profile_list if p.name == profile_name)): the first
\* profile of that name, None when the generator is exhausted (next raises).
next_profile(card, profile_name) ==
    LET hits == SelectSeq(card.profile_list, LAMBDA p : p.name = profile_name)
    IN  IF hits = <<>> THEN None ELSE Some(Head(hits))

\* Variant: the profile is set on every card.
card_profile_set_all(cs, card, profile) ==
    [k \in DOMAIN cs |-> [cs[k] EXCEPT !.profile_active = profile]]

\* Variant: the profile is set on the first card, whatever card was passed.
card_profile_set_first(cs, card, profile) ==
    [k \in DOMAIN cs |->
        IF k = 1
        THEN [cs[k] EXCEPT !.profile_active = profile]
        ELSE cs[k]]

\* The server's card list after an accepted pulse.card_profile_set(card, profile).
card_profile_set(cs, card, profile) ==
    [k \in DOMAIN cs |->
        IF cs[k].name = card.name
        THEN [cs[k] EXCEPT !.profile_active = profile]
        ELSE cs[k]]

\* The server's default-sink name after an accepted pulse.sink_default_set(sink).
sink_default_set(sink) == sink.name

\* Variant: the two arguments of sink_input_move are passed in the wrong order.
sink_input_move_swapped(si, index, sink_index) ==
    [k \in DOMAIN si |->
        IF si[k].index = sink_index
        THEN [si[k] EXCEPT !.sink = index]
        ELSE si[k]]

\* The server's sink inputs after an accepted pulse.sink_input_move(index, sink_index).
sink_input_move(si, index, sink_index) ==
    [k \in DOMAIN si |->
        IF si[k].index = index
        THEN [si[k] EXCEPT !.sink = sink_index]
        ELSE si[k]]

---------------------------------------------------------------------------
(* list_output_profiles: the two nested loops *)

\* Variant: the n_sinks test is missing.
ProfileSelected_no_n_sinks(p) ==
    p.available # 0 /\ StartsWith(p.name, OutputPrefix)

ProfileSelected(p) ==
    p.available # 0 /\ p.n_sinks > 0 /\ StartsWith(p.name, OutputPrefix)

RECURSIVE profiles_loop(_)
profiles_loop(pl) ==
    IF pl = <<>> THEN <<>>
    ELSE LET p == Head(pl)
         IN  (IF ProfileSelected(p) THEN << <<p.name, p.description>> >> ELSE <<>>)
             \o profiles_loop(Tail(pl))

\* Variant: the first profile of the list is reported as the active one.
CardRecord_first_profile(card) ==
    << card.name,
       card.proplist.device_description,
       profiles_loop(card.profile_list),
       Head(card.profile_list).name >>

CardRecord(card) ==
    << card.name,
       card.proplist.device_description,
       profiles_loop(card.profile_list),
       card.profile_active.name >>

RECURSIVE cards_loop(_)
cards_loop(cs) ==
    IF cs = <<>> THEN <<>>
    ELSE <<CardRecord(Head(cs))>> \o cards_loop(Tail(cs))

---------------------------------------------------------------------------
(* list_sinks: the loop over the sinks *)

\* Variant: the name of the active port is reported instead of its state.
PortState_port_name(s) ==
    IF s.port_active # None
    THEN Head(s.port_active).name
    ELSE "unknown"

PortState(s) ==
    IF s.port_active # None
    THEN Head(s.port_active).available_state._value
    ELSE "unknown"

\* Variant: the description is compared instead of the name.
IsDefaultSink_description(s, dsn) == s.description = dsn

IsDefaultSink(s, dsn) == s.name = dsn

SinkRecord(s, dsn) ==
    << s.name,
       s.description,
       s.index,
       s.card,
       s.mute # 0,
       s.channel_count,
       s.volume.values,
       PortState(s),
       IsDefaultSink(s, dsn) >>

RECURSIVE sinks_loop(_, _)
sinks_loop(sinks, dsn) ==
    IF sinks = <<>> THEN <<>>
    ELSE <<SinkRecord(Head(sinks), dsn)>> \o sinks_loop(Tail(sinks), dsn)

---------------------------------------------------------------------------
(* The event loop: method calls arrive, are dispatched, run, are replied to *)

\* Variant: handlers are entered as soon as their call arrives.
LoopFree_always == TRUE

\* A handler is entered only when no other handler holds the event loop: the
\* handlers are coroutines without an await, run by one asyncio loop.
LoopFree == running = 0

FirstStep(m) ==
    CASE m = "list_output_profiles" -> "lop_card_list"
      [] m = "set_profile"          -> "sp_get_card"
      [] m = "list_sinks"           -> "ls_server_info"
      [] m = "set_default_sink"     -> "sds_get_sink"

Logged(c, name, a, ok) == log' = [log EXCEPT ![c] = Append(@, Cmd(name, a, ok))]

Goto(c, p) == pc' = [pc EXCEPT ![c] = p]

\* The handler of caller c ends with r (a return value or an exception).
Finish(c, r) ==
    /\ pc' = [pc EXCEPT ![c] = "ret"]
    /\ result' = [result EXCEPT ![c] = r]

\* A D-Bus method call of caller c arrives on the bus and waits for the loop.
Call(c) ==
    /\ pc[c] = "idle"
    /\ pc' = [pc EXCEPT ![c] = "queued"]
    /\ UNCHANGED <<server, running, op, arg, local, result, log, pre, last>>

\* The event loop reads the waiting call of caller c, method m with arguments
\* a, and enters its handler.
Start(c, m, a) ==
    /\ pc[c] = "queued"
    /\ LoopFree
    /\ running' = c
    /\ op' = [op EXCEPT ![c] = m]
    /\ arg' = [arg EXCEPT ![c] = a]
    /\ pc' = [pc EXCEPT ![c] = FirstStep(m)]
    /\ pre' = [pre EXCEPT ![c] = [cards |-> cards, sink_inputs |-> sink_inputs,
                                  default_sink_name |-> default_sink_name]]
    /\ UNCHANGED <<server, local, result, log, last>>

\* The handler has ended; the reply (or the error) goes back to the caller
\* and the event loop is free again.
Reply(c) ==
    /\ pc[c] = "ret"
    /\ running' = 0
    /\ last' = IF op[c] \in {"list_output_profiles", "list_sinks"} THEN last
                ELSE IF RetOf(op[c], result[c]) = "true"
                     THEN [op |-> op[c], arg |-> arg[c]]
                     ELSE NoLast
    /\ pc' = [pc EXCEPT ![c] = "idle"]
    /\ op' = [op EXCEPT ![c] = "none"]
    /\ arg' = [arg EXCEPT ![c] = <<>>]
    /\ local' = [local EXCEPT ![c] = NoLocal]
    /\ result' = [result EXCEPT ![c] = NoResult]
    /\ log' = [log EXCEPT ![c] = <<>>]
    /\ pre' = [pre EXCEPT ![c] = NoPre]
    /\ UNCHANGED server

---------------------------------------------------------------------------
(* list_output_profiles *)

LopCardList(c) ==
    /\ pc[c] = "lop_card_list"
    /\ \E ok \in BOOLEAN :
        /\ Logged(c, "card_list", <<>>, ok)
        /\ IF ok THEN Finish(c, Return(cards_loop(cards)))
                 ELSE Finish(c, Raise("PulseError"))
    /\ UNCHANGED <<server, running, op, arg, local, pre, last>>

---------------------------------------------------------------------------
(* set_profile *)

\* Lines 59-60: both lookups; either one ends the handler with an exception
\* (the StopIteration of next() leaves a coroutine as a RuntimeError).
SpLookupFail(c, card) ==
    IF card = None THEN Finish(c, Raise("PulseIndexError"))
                   ELSE Finish(c, Raise("RuntimeError"))

SpGetCard(c) ==
    /\ pc[c] = "sp_get_card"
    /\ LET card == get_card_by_name(cards, arg[c][1])
           profile == IF card = None THEN None ELSE next_profile(Head(card), arg[c][2])
       IN  /\ Logged(c, "get_card_by_name", <<arg[c][1]>>, card # None)
           /\ IF card # None /\ profile # None
              THEN /\ local' = [local EXCEPT ![c].card = card, ![c].profile = profile]
                   /\ Goto(c, "sp_card_profile_set")
                   /\ UNCHANGED result
              ELSE /\ SpLookupFail(c, card)
                   /\ UNCHANGED local
    /\ UNCHANGED <<server, running, op, arg, pre, last>>

\* Variant: the exception of card_profile_set is swallowed.
SpProfileSetFailed_swallowed(c) == Finish(c, Return(TRUE))

\* Line 61 raised: nothing catches it, the handler ends with it.
SpProfileSetFailed(c) == Finish(c, Raise("PulseOperationFailed"))

SpCardProfileSet(c) ==
    /\ pc[c] = "sp_card_profile_set"
    /\ LET card == Head(local[c].card)
           profile == Head(local[c].profile)
       IN  \E ok \in BOOLEAN :
            /\ Logged(c, "card_profile_set", <<card.name, profile.name>>, ok)
            /\ IF ok
               THEN /\ cards' = card_profile_set(cards, card, profile)
                    /\ Finish(c, Return(TRUE))
               ELSE /\ UNCHANGED cards
                    /\ SpProfileSetFailed(c)
    /\ UNCHANGED <<sink_list, sink_inputs, default_sink_name, running, op, arg,
                   local, pre, last>>

---------------------------------------------------------------------------
(* list_sinks *)

\* Variant: reading the default-sink name clears it at the server.
LsServerInfo_clears(c) ==
    /\ pc[c] = "ls_server_info"
    /\ Logged(c, "server_info", <<>>, TRUE)
    /\ local' = [local EXCEPT ![c].default_sink_name = default_sink_name]
    /\ Goto(c, "ls_sink_list")
    /\ default_sink_name' = ""
    /\ UNCHANGED <<cards, sink_list, sink_inputs, result, running, op, arg, pre, last>>

LsServerInfo(c) ==
    /\ pc[c] = "ls_server_info"
    /\ \E ok \in BOOLEAN :
        /\ Logged(c, "server_info", <<>>, ok)
        /\ IF ok
           THEN /\ local' = [local EXCEPT ![c].default_sink_name = default_sink_name]
                /\ Goto(c, "ls_sink_list")
                /\ UNCHANGED result
           ELSE /\ Finish(c, Raise("PulseError"))
                /\ UNCHANGED local
    /\ UNCHANGED <<server, running, op, arg, pre, last>>

LsSinkList(c) ==
    /\ pc[c] = "ls_sink_list"
    /\ \E ok \in BOOLEAN :
        /\ Logged(c, "sink_list", <<>>, ok)
        /\ IF ok
           THEN Finish(c, Return(<< sinks_loop(sink_list, local[c].default_sink_name),
                                    local[c].default_sink_name >>))
           ELSE Finish(c, Raise("PulseError"))
    /\ UNCHANGED <<server, running, op, arg, local, pre, last>>

---------------------------------------------------------------------------
(* set_default_sink *)

\* Variant: the except branch returns True.
SdsGetSinkExcept_true(c) ==
    /\ Finish(c, Return(TRUE))
    /\ UNCHANGED local

\* Lines 101-103: the lookup raised; the handler prints and returns False.
SdsGetSinkExcept(c) ==
    /\ Finish(c, Return(FALSE))
    /\ UNCHANGED local

SdsGetSink(c) ==
    /\ pc[c] = "sds_get_sink"
    /\ LET sink == get_sink_by_name(sink_list, arg[c][1])
       IN  /\ Logged(c, "get_sink_by_name", <<arg[c][1]>>, sink # None)
           /\ IF sink # None
              THEN /\ local' = [local EXCEPT ![c].target_sink = sink]
                   /\ Goto(c, "sds_sink_default_set")
                   /\ UNCHANGED result
              ELSE SdsGetSinkExcept(c)
    /\ UNCHANGED <<server, running, op, arg, pre, last>>

\* Variant: the except branch only prints and the handler goes on.
SdsDefaultSetExcept_pass(c) ==
    /\ Goto(c, "sds_sink_input_list")
    /\ UNCHANGED <<result, local>>

\* Variant: the except branch returns True.
SdsDefaultSetExcept_true(c) ==
    /\ Finish(c, Return(TRUE))
    /\ UNCHANGED local

\* Lines 106-108: sink_default_set raised; the handler prints and returns False.
SdsDefaultSetExcept(c) ==
    /\ Finish(c, Return(FALSE))
    /\ UNCHANGED local

SdsSinkDefaultSet(c) ==
    /\ pc[c] = "sds_sink_default_set"
    /\ LET target_sink == Head(local[c].target_sink)
       IN  \E ok \in BOOLEAN :
            /\ Logged(c, "sink_default_set", <<target_sink.name>>, ok)
            /\ IF ok
               THEN /\ default_sink_name' = sink_default_set(target_sink)
                    /\ Goto(c, "sds_sink_input_list")
                    /\ UNCHANGED <<result, local>>
               ELSE /\ UNCHANGED default_sink_name
                    /\ SdsDefaultSetExcept(c)
    /\ UNCHANGED <<cards, sink_list, sink_inputs, running, op, arg, pre, last>>

SdsSinkInputList(c) ==
    /\ pc[c] = "sds_sink_input_list"
    /\ \E ok \in BOOLEAN :
        /\ Logged(c, "sink_input_list", <<>>, ok)
        /\ IF ok
           THEN /\ local' = [local EXCEPT ![c].streams = sink_inputs, ![c].i = 1]
                /\ Goto(c, "sds_loop")
                /\ UNCHANGED result
           ELSE /\ Finish(c, Raise("PulseError"))
                /\ UNCHANGED local
    /\ UNCHANGED <<server, running, op, arg, pre, last>>

\* Line 112 raised: nothing catches it, the loop and the handler end with it.
SdsMoveFailed(c) ==
    /\ Finish(c, Raise("PulseOperationFailed"))
    /\ UNCHANGED local

\* One iteration of the loop of lines 111-112.
SdsSinkInputMove(c) ==
    /\ pc[c] = "sds_loop"
    /\ local[c].i <= Len(local[c].streams)
    /\ LET stream == local[c].streams[local[c].i]
           target_sink == Head(local[c].target_sink)
       IN  \E ok \in BOOLEAN :
            /\ Logged(c, "sink_input_move", <<stream.index, target_sink.index>>, ok)
            /\ IF ok
               THEN /\ sink_inputs' = sink_input_move(sink_inputs, stream.index,
                                                      target_sink.index)
                    /\ local' = [local EXCEPT ![c].i = @ + 1]
                    /\ UNCHANGED <<pc, result>>
               ELSE /\ UNCHANGED sink_inputs
                    /\ SdsMoveFailed(c)
    /\ UNCHANGED <<cards, sink_list, default_sink_name, running, op, arg, pre, last>>

\* Line 113: the loop is exhausted.
SdsReturnTrue(c) ==
    /\ pc[c] = "sds_loop"
    /\ local[c].i > Len(local[c].streams)
    /\ Finish(c, Return(TRUE))
    /\ UNCHANGED <<server, running, op, arg, local, log, pre, last>>

---------------------------------------------------------------------------
(* The audio server's other clients *)

\* A client starts playback: a new sink input appears on one of the sinks.
StreamStart ==
    /\ Len(sink_inputs) < MaxStreams
    /\ \E k \in DOMAIN sink_list :
        sink_inputs' = Append(sink_inputs,
                              [index |-> Len(sink_inputs), sink |-> sink_list[k].index])
    /\ UNCHANGED <<cards, sink_list, default_sink_name, running, pc, op, arg,
                   local, result, log, pre, last>>

---------------------------------------------------------------------------

Next ==
    \/ \E c \in Callers : Call(c)
    \/ \E c \in Callers : \E m \in Methods : \E a \in ArgsOf(m) : Start(c, m, a)
    \/ \E c \in Callers : Reply(c)
    \/ \E c \in Callers : LopCardList(c)
    \/ \E c \in Callers : SpGetCard(c)
    \/ \E c \in Callers : SpCardProfileSet(c)
    \/ \E c \in Callers : LsServerInfo(c)
    \/ \E c \in Callers : LsSinkList(c)
    \/ \E c \in Callers : SdsGetSink(c)
    \/ \E c \in Callers : SdsSinkDefaultSet(c)
    \/ \E c \in Callers : SdsSinkInputList(c)
    \/ \E c \in Callers : SdsSinkInputMove(c)
    \/ \E c \in Callers : SdsReturnTrue(c)
    \/ StreamStart

Spec == Init /\ [][Next]_vars

---------------------------------------------------------------------------
(* Properties *)

Returned(c, m) == pc[c] = "ret" /\ op[c] = m

Issued(c, name) == \E k \in DOMAIN log[c] : log[c][k].cmd = name

Accepted(c, name) == \E k \in DOMAIN log[c] : log[c][k].cmd = name /\ log[c][k].ok

Rejected(c, name) == \E k \in DOMAIN log[c] : log[c][k].cmd = name /\ ~log[c][k].ok

SinkExists(name) == \E k \in DOMAIN sink_list : sink_list[k].name = name

SinkIndexOf(name) == (CHOOSE s \in {sink_list[k] : k \in DOMAIN sink_list} : s.name = name).index

ProfileExists(card_name, profile_name) ==
    \E k \in DOMAIN cards :
        /\ cards[k].name = card_name
        /\ \E j \in DOMAIN cards[k].profile_list :
              cards[k].profile_list[j].name = profile_name

ActiveProfileName(cs, card_name) ==
    (CHOOSE k \in {cs[j] : j \in DOMAIN cs} : k.name = card_name).profile_active.name

\* C1: when set_default_sink(sink_name) returns after its set-default command
\* succeeded, the server's default sink is sink_name, every stream the call
\* enumerated is on that sink, and the return value is True.
C1_DefaultSetAndAllStreamsMoved ==
    \A c \in Callers :
        ( /\ Returned(c, "set_default_sink")
          /\ result[c].kind = "return"
          /\ Accepted(c, "sink_default_set") )
        => /\ default_sink_name = arg[c][1]
           /\ \A k \in DOMAIN local[c].streams :
                 \E j \in DOMAIN sink_inputs :
                    /\ sink_inputs[j].index = local[c].streams[k].index
                    /\ sink_inputs[j].sink = SinkIndexOf(arg[c][1])
           /\ result[c].value = TRUE

\* Two streams that were on another sink, and another default, before the call.
C1_Witness ==
    \E c \in Callers :
        /\ Returned(c, "set_default_sink")
        /\ result[c].kind = "return"
        /\ Accepted(c, "sink_default_set")
        /\ Len(local[c].streams) = 2
        /\ \A k \in DOMAIN local[c].streams :
              local[c].streams[k].sink # SinkIndexOf(arg[c][1])
        /\ pre[c].default_sink_name # arg[c][1]

\* C2: when the set-default command of set_default_sink fails, the call returns
\* False, the default-sink name is what it was, no stream-move command is
\* issued and every stream is where it was.
C2_DefaultSetFailureReturnsFalse ==
    \A c \in Callers :
        ( /\ Returned(c, "set_default_sink")
          /\ Rejected(c, "sink_default_set") )
        => /\ result[c].kind = "return"
           /\ result[c].value = FALSE
           /\ default_sink_name = pre[c].default_sink_name
           /\ ~Issued(c, "sink_input_move")
           /\ \A j \in DOMAIN pre[c].sink_inputs :
                 sink_inputs[j] = pre[c].sink_inputs[j]

C2_Witness ==
    \E c \in Callers :
        /\ Returned(c, "set_default_sink")
        /\ Rejected(c, "sink_default_set")
        /\ pre[c].default_sink_name # arg[c][1]
        /\ Len(pre[c].sink_inputs) = 2

\* C3: set_default_sink(name) with a name that matches no sink returns False,
\* leaves the default-sink name unchanged and issues neither the set-default
\* command nor a stream-move command.
C3_UnknownSinkReturnsFalse ==
    \A c \in Callers :
        ( /\ Returned(c, "set_default_sink")
          /\ ~SinkExists(arg[c][1]) )
        => /\ result[c].kind = "return"
           /\ result[c].value = FALSE
           /\ default_sink_name = pre[c].default_sink_name
           /\ ~Issued(c, "sink_default_set")
           /\ ~Issued(c, "sink_input_move")

C3_Witness ==
    \E c \in Callers :
        /\ Returned(c, "set_default_sink")
        /\ ~SinkExists(arg[c][1])
        /\ sink_list # <<>>
        /\ sink_inputs # <<>>
        /\ default_sink_name # arg[c][1]

\* C4: a failed stream-move command does not abort the migration: a move is
\* attempted for every other enumerated stream, the failed stream stays on its
\* prior sink, and the call returns True.
C4_MoveFailureDoesNotAbort ==
    \A c \in Callers :
        ( /\ Returned(c, "set_default_sink")
          /\ Rejected(c, "sink_input_move") )
        => /\ \A k \in DOMAIN local[c].streams :
                 \E j \in DOMAIN log[c] :
                    /\ log[c][j].cmd = "sink_input_move"
                    /\ log[c][j].a[1] = local[c].streams[k].index
           /\ \A j \in DOMAIN log[c] :
                 (log[c][j].cmd = "sink_input_move" /\ ~log[c][j].ok)
                 => \A k \in DOMAIN pre[c].sink_inputs :
                       pre[c].sink_inputs[k].index = log[c][j].a[1]
                       => sink_inputs[k] = pre[c].sink_inputs[k]
           /\ result[c].kind = "return"
           /\ result[c].value = TRUE

\* C5: set_profile with a card name that matches no card, or a profile name
\* that is not in the card's profile list, completes normally and returns
\* False.
C5_SetProfileNotFoundReturnsFalse ==
    \A c \in Callers :
        ( /\ Returned(c, "set_profile")
          /\ ~ProfileExists(arg[c][1], arg[c][2]) )
        => /\ result[c].kind = "return"
           /\ result[c].value = FALSE

\* C6: set_profile with an unresolvable card name or profile name never issues
\* the profile-set command: every card's active profile is what it was.
C6_SetProfileNotFoundIssuesNothing ==
    \A c \in Callers :
        ( /\ Returned(c, "set_profile")
          /\ ~ProfileExists(arg[c][1], arg[c][2]) )
        => /\ ~Issued(c, "card_profile_set")
           /\ cards = pre[c].cards

\* The card exists, the profile is not one of its profiles.
C6_Witness ==
    \E c \in Callers :
        /\ Returned(c, "set_profile")
        /\ \E k \in DOMAIN cards : cards[k].name = arg[c][1]
        /\ ~ProfileExists(arg[c][1], arg[c][2])
        /\ result[c].kind = "raise"

\* C7: set_profile(card, p) called again right after a set_profile(card, p)
\* that returned True, with the server accepting the command again, returns
\* True again, the card's active profile is p after the first call and after
\* the second, and the second call leaves the cards as the first left them.
C7_SetProfileIdempotent ==
    \A c \in Callers :
        ( /\ Returned(c, "set_profile")
          /\ last.op = "set_profile"
          /\ last.arg = arg[c]
          /\ ~Rejected(c, "card_profile_set") )
        => /\ result[c].kind = "return"
           /\ result[c].value = TRUE
           /\ ActiveProfileName(pre[c].cards, arg[c][1]) = arg[c][2]
           /\ ActiveProfileName(cards, arg[c][1]) = arg[c][2]
           /\ cards = pre[c].cards

\* The second of two calls that switch a card away from its first profile "off".
C7_Witness ==
    \E c \in Callers :
        /\ Returned(c, "set_profile")
        /\ last.op = "set_profile"
        /\ last.arg = arg[c]
        /\ Accepted(c, "card_profile_set")
        /\ arg[c] = <<"card1", N_output_h>>

\* C8: for every card, list_output_profiles returns one record, whose profile
\* entries are exactly the card's profiles that are available, have
\* n_sinks > 0 and a name starting with "output:", in the server's order.
C8_Qualifies(p) ==
    /\ p.available # 0
    /\ p.n_sinks > 0
    /\ Len(p.name) >= 7
    /\ \A i \in 1..7 : p.name[i] = OutputPrefix[i]

C8_OutputProfilesExact ==
    \A c \in Callers :
        ( /\ Returned(c, "list_output_profiles")
          /\ result[c].kind = "return" )
        => LET r == result[c].value
           IN  /\ Len(r) = Len(cards)
               /\ \A k \in DOMAIN cards :
                    LET sel == SelectSeq(cards[k].profile_list, C8_Qualifies)
                    IN  /\ r[k][1] = cards[k].name
                        /\ Len(r[k][3]) = Len(sel)
                        /\ \A j \in DOMAIN sel :
                              r[k][3][j] = <<sel[j].name, sel[j].description>>

\* One card with no qualifying profile, one with some of its profiles left out.
C8_Witness ==
    \E c \in Callers :
        /\ Returned(c, "list_output_profiles")
        /\ result[c].kind = "return"
        /\ \E k \in DOMAIN cards : Len(result[c].value[k][3]) = 0
        /\ \E k \in DOMAIN cards :
              /\ Len(result[c].value[k][3]) = 1
              /\ Len(cards[k].profile_list) = 5

\* C9: in a list_sinks result, when there is a sink and the server's
\* default-sink name names one, exactly one record has is_default true, its
\* name is the returned default_sink_name, and all others have it false.
C9_ExactlyOneDefault ==
    \A c \in Callers :
        ( /\ Returned(c, "list_sinks")
          /\ result[c].kind = "return"
          /\ sink_list # <<>>
          /\ SinkExists(default_sink_name) )
        => LET recs == result[c].value[1]
               dsn  == result[c].value[2]
           IN  /\ Cardinality({k \in DOMAIN recs : recs[k][9]}) = 1
               /\ \A k \in DOMAIN recs : recs[k][9] <=> (recs[k][1] = dsn)

\* Two sinks, the second one is the default.
C9_Witness ==
    \E c \in Callers :
        /\ Returned(c, "list_sinks")
        /\ result[c].kind = "return"
        /\ Len(result[c].value[1]) = 2
        /\ result[c].value[2] = "B"
        /\ result[c].value[1][2][9]

\* C10: at most one call is in flight against the connection: from a
\* handler's first pulsectl call to its end no other handler makes a pulsectl
\* call, so none sees set_default_sink between its set-default command and
\* its last stream move.
C10_OneCallInFlight ==
    \A c, d \in Callers :
        (c # d /\ pc[c] \notin {"idle", "queued"}) => pc[d] \in {"idle", "queued"}

\* A call waits while set_default_sink is between its two stream moves.
C10_Witness ==
    \E c, d \in Callers :
        /\ c # d
        /\ pc[d] = "queued"
        /\ pc[c] = "sds_loop"
        /\ local[c].i = 2
        /\ Len(local[c].streams) = 2

\* C11: within a set_default_sink call the set-default command is issued at
\* most once and only after the sink was resolved, a stream-move command only
\* after the set-default command was accepted; the call returns False when
\* the lookup or the set-default command failed, and True only after the
\* set-default command was accepted and the loop over the streams was done.
C11_ResolveThenSetThenMove ==
    \A c \in Callers :
        op[c] = "set_default_sink"
        => /\ Cardinality({k \in DOMAIN log[c] : log[c][k].cmd = "sink_default_set"}) <= 1
           /\ \A k \in DOMAIN log[c] :
                 log[c][k].cmd = "sink_default_set"
                 => \E j \in 1..(k-1) :
                       log[c][j].cmd = "get_sink_by_name" /\ log[c][j].ok
           /\ \A k \in DOMAIN log[c] :
                 log[c][k].cmd = "sink_input_move"
                 => \E j \in 1..(k-1) :
                       log[c][j].cmd = "sink_default_set" /\ log[c][j].ok
           /\ (pc[c] = "ret" /\ (Rejected(c, "get_sink_by_name")
                                 \/ Rejected(c, "sink_default_set")))
              => (result[c].kind = "return" /\ result[c].value = FALSE)
           /\ (pc[c] = "ret" /\ result[c].kind = "return" /\ result[c].value = TRUE)
              => /\ Accepted(c, "sink_default_set")
                 /\ Accepted(c, "sink_input_list")
                 /\ local[c].i = Len(local[c].streams) + 1

\* A call that went through all the states: resolved, set, moved two streams.
C11_Witness ==
    \E c \in Callers :
        /\ Returned(c, "set_default_sink")
        /\ result[c].kind = "return"
        /\ result[c].value = TRUE
        /\ Len(log[c]) = 5
        /\ log[c][5].cmd = "sink_input_move"

\* C12: after an accepted set-default command, set_default_sink enumerates the
\* streams once and issues exactly one move command per enumerated stream, to
\* the target sink, in enumeration order, whatever sink the stream is on; a
\* stream that started after the enumeration is sent none.
C12_OneMovePerEnumeratedStream ==
    \A c \in Callers :
        ( /\ Returned(c, "set_default_sink")
          /\ Accepted(c, "sink_default_set")
          /\ Accepted(c, "sink_input_list") )
        => LET moves == SelectSeq(log[c], LAMBDA e : e.cmd = "sink_input_move")
           IN  /\ Cardinality({k \in DOMAIN log[c] : log[c][k].cmd = "sink_input_list"}) = 1
               /\ Len(moves) = Len(local[c].streams)
               /\ \A k \in DOMAIN moves :
                     moves[k].a = << local[c].streams[k].index,
                                     SinkIndexOf(arg[c][1]) >>

\* C13: set_profile returns True only when the profile-set command was
\* accepted, and then the card's active profile is the requested one; when the
\* server rejects the command the call ends with the exception, not a value.
C13_TrueOnlyAfterAcceptedProfileSet ==
    \A c \in Callers :
        Returned(c, "set_profile")
        => /\ (result[c].kind = "return" /\ result[c].value = TRUE)
              => /\ Accepted(c, "card_profile_set")
                 /\ ActiveProfileName(cards, arg[c][1]) = arg[c][2]
           /\ Rejected(c, "card_profile_set")
              => /\ result[c].kind = "raise"
                 /\ cards = pre[c].cards

\* The server rejected the command for a profile the card has.
C13_Witness ==
    \E c \in Callers :
        /\ Returned(c, "set_profile")
        /\ ProfileExists(arg[c][1], arg[c][2])
        /\ Rejected(c, "card_profile_set")
        /\ result[c].kind = "raise"

\* C14: set_profile looks the profile up in the card's full profile list: for
\* every profile the card declares, also one that list_output_profiles never
\* shows, the profile-set command is issued for it and, the server accepting
\* it, the call returns True with that profile active.
C14_AnyDeclaredProfile ==
    \A c \in Callers :
        ( /\ Returned(c, "set_profile")
          /\ ProfileExists(arg[c][1], arg[c][2]) )
        => /\ \E k \in DOMAIN log[c] :
                 /\ log[c][k].cmd = "card_profile_set"
                 /\ log[c][k].a = <<arg[c][1], arg[c][2]>>
           /\ ~Rejected(c, "card_profile_set")
              => /\ result[c].kind = "return"
                 /\ result[c].value = TRUE
                 /\ ActiveProfileName(cards, arg[c][1]) = arg[c][2]

\* An unavailable "output:" profile was set.
C14_Witness ==
    \E c \in Callers :
        /\ Returned(c, "set_profile")
        /\ result[c].kind = "return"
        /\ \E k \in DOMAIN cards :
              /\ cards[k].name = arg[c][1]
              /\ cards[k].profile_active.name = arg[c][2]
              /\ cards[k].profile_active.available = 0
              /\ ~C8_Qualifies(cards[k].profile_active)

\* C15: nothing is cached: a list_sinks call whose latest preceding set_* call
\* is a set_default_sink(B) that returned True returns B as default_sink_name
\* and flags the record of B and no other; a list_output_profiles call whose
\* latest preceding set_* call is a set_profile(c, p) that returned True
\* reports p as the active profile of card c.
C15_ListsReadFresh ==
    \A c \in Callers :
        /\ ( /\ Returned(c, "list_sinks")
             /\ result[c].kind = "return"
             /\ last.op = "set_default_sink" )
           => LET recs == result[c].value[1]
              IN  /\ result[c].value[2] = last.arg[1]
                  /\ \E k \in DOMAIN recs : recs[k][1] = last.arg[1] /\ recs[k][9]
                  /\ \A k \in DOMAIN recs : recs[k][9] => recs[k][1] = last.arg[1]
        /\ ( /\ Returned(c, "list_output_profiles")
             /\ result[c].kind = "return"
             /\ last.op = "set_profile" )
           => \E k \in DOMAIN result[c].value :
                 /\ result[c].value[k][1] = last.arg[1]
                 /\ result[c].value[k][4] = last.arg[2]

\* list_output_profiles after a set_profile that switched card1 to "output:h".
C15_Witness ==
    \E c \in Callers :
        /\ Returned(c, "list_output_profiles")
        /\ result[c].kind = "return"
        /\ last.op = "set_profile"
        /\ last.arg = <<"card1", N_output_h>>
        /\ result[c].value[2][4] = N_output_h

\* C16: in every list_sinks record the port_state is the availability state
\* of the sink's active port, and "unknown" when the sink has no active port;
\* such a sink is neither dropped nor makes the call fail.
C16_PortStateOrUnknown ==
    \A c \in Callers :
        Returned(c, "list_sinks")
        => /\ result[c].kind = "return"
              => LET recs == result[c].value[1]
                 IN  /\ Len(recs) = Len(sink_list)
                     /\ \A k \in DOMAIN sink_list :
                           /\ recs[k][1] = sink_list[k].name
                           /\ recs[k][8] =
                                 IF Len(sink_list[k].port_active) = 0
                                 THEN "unknown"
                                 ELSE sink_list[k].port_active[1].available_state._value
           /\ result[c].kind = "raise"
              => (Rejected(c, "server_info") \/ Rejected(c, "sink_list"))

\* A sink with an active port and a sink without one in the same result.
C16_Witness ==
    \E c \in Callers :
        /\ Returned(c, "list_sinks")
        /\ result[c].kind = "return"
        /\ Len(result[c].value[1]) = 2
        /\ result[c].value[1][1][8] = "yes"
        /\ result[c].value[1][2][8] = "unknown"

\* C17: list_output_profiles and list_sinks only read: from entry to end they
\* issue no profile-set, default-set or stream-move command, and the
\* default-sink name, the cards' active profiles and the streams' sinks are
\* what they were when the call began.
C17_ListsOnlyRead ==
    \A c \in Callers :
        op[c] \in {"list_output_profiles", "list_sinks"}
        => /\ \A k \in DOMAIN log[c] :
                 log[c][k].cmd \in {"card_list", "server_info", "sink_list"}
           /\ default_sink_name = pre[c].default_sink_name
           /\ cards = pre[c].cards
           /\ \A j \in DOMAIN pre[c].sink_inputs :
                 sink_inputs[j] = pre[c].sink_inputs[j]

\* A list_sinks call ended on a server with two streams.
C17_Witness ==
    \E c \in Callers :
        /\ Returned(c, "list_sinks")
        /\ result[c].kind = "return"
        /\ Len(log[c]) = 2
        /\ Len(pre[c].sink_inputs) = 2

\* C18: set_profile issues at most one profile-set command, for the named
\* card, and no default-set or stream-move command: default-sink name, stream
\* sinks and the other cards are as they were; set_default_sink issues no
\* profile-set command: the cards are as they were.
C18_SettersKeepApart ==
    \A c \in Callers :
        /\ op[c] = "set_profile"
           => /\ Cardinality({k \in DOMAIN log[c] : log[c][k].cmd = "card_profile_set"}) <= 1
              /\ \A k \in DOMAIN log[c] :
                    /\ log[c][k].cmd \in {"get_card_by_name", "card_profile_set"}
                    /\ log[c][k].cmd = "card_profile_set" => log[c][k].a[1] = arg[c][1]
              /\ default_sink_name = pre[c].default_sink_name
              /\ \A j \in DOMAIN pre[c].sink_inputs :
                    sink_inputs[j] = pre[c].sink_inputs[j]
              /\ \A k \in DOMAIN cards :
                    cards[k].name # arg[c][1] => cards[k] = pre[c].cards[k]
        /\ op[c] = "set_default_sink"
           => /\ ~Issued(c, "card_profile_set")
              /\ cards = pre[c].cards

\* A set_profile call changed its card while two streams were playing.
C18_Witness ==
    \E c \in Callers :
        /\ Returned(c, "set_profile")
        /\ Accepted(c, "card_profile_set")
        /\ cards # pre[c].cards
        /\ Len(pre[c].sink_inputs) = 2

=============================================================================
